---------------------------- MODULE Spec2Model ----------------------------
(***************************************************************************)
(* Lone U-Boat (src/main.py): the submarine's hex-grid movement and the    *)
(* main event loop.                                                        *)
(*                                                                         *)
(* Python lists are modelled as TLA+ sequences, so the source's 0-based    *)
(* index i is the sequence index i + 1 (see PyGetItem).                    *)
(***************************************************************************)
EXTENDS Integers, Sequences, FiniteSets, TLC

\* --- TERRAIN TYPES (src/main.py:27-30) ---
DEEP_WATER == 1
SHALLOW_WATER == 2
LAND == 3
OUT_OF_BOUNDS == 0

\* --- MAP LAYOUT (src/main.py:33-47) ---
GameMapLayout ==
    << <<0, 0, 1, 1, 1, 1, 1, 1, 1, 1, 1, 1, 1, 0, 0>>,
       <<0, 1, 1, 1, 1, 1, 1, 1, 1, 1, 1, 1, 1, 1, 0>>,
       <<1, 1, 1, 2, 2, 1, 1, 1, 1, 1, 1, 1, 1, 1, 1>>,
       <<1, 1, 2, 2, 3, 2, 1, 1, 1, 1, 1, 1, 1, 1, 1>>,
       <<1, 1, 2, 3, 3, 2, 2, 1, 1, 1, 1, 1, 1, 1, 1>>,
       <<1, 1, 1, 2, 2, 2, 2, 2, 1, 1, 1, 1, 1, 1, 1>>,
       <<1, 1, 1, 1, 1, 2, 3, 2, 1, 1, 1, 1, 1, 1, 1>>,
       <<1, 1, 1, 1, 2, 2, 2, 2, 2, 1, 1, 1, 1, 1, 1>>,
       <<1, 1, 1, 1, 2, 3, 2, 1, 1, 1, 1, 1, 1, 1, 1>>,
       <<1, 1, 1, 1, 2, 2, 2, 1, 1, 1, 1, 1, 1, 1, 1>>,
       <<1, 1, 1, 1, 1, 1, 1, 1, 1, 1, 1, 1, 1, 1, 1>>,
       <<0, 1, 1, 1, 1, 1, 1, 1, 1, 1, 1, 1, 1, 1, 0>>,
       <<0, 0, 1, 1, 1, 1, 1, 1, 1, 1, 1, 1, 1, 0, 0>> >>

\* --- GAME STATE (src/main.py:57-72) ---
GameStateInit ==
    [ uboat_pos         |-> <<7, 7>>,
      uboat_orientation |-> 0,
      detection_level   |-> 1,
      hull_damage       |-> 2,
      torpedo_tubes     |-> [t1 |-> "loaded", t2 |-> "loaded", t3 |-> "empty",
                             t4 |-> "damaged", t5 |-> "loaded"],
      crew_status       |-> [Captain |-> "OK", SonarOperator |-> "OK",
                             Engineer |-> "KIA", WeaponsOfficer |-> "OK",
                             Lookout |-> "OK", MedOfficer |-> "OK"],
      system_damage     |-> [Engine |-> "damaged", FlakGun |-> "OK",
                             DeckGun |-> "OK"] ]

VARIABLES
    game_map,     \* the module-level terrain list
    game_state,   \* the module-level state dictionary
    uboat,        \* the Uboat object: [row, col, orientation]
    exc,          \* the exception that ended the program, or "none"
    neg_index,    \* TRUE once game_map was subscripted with a negative index
    last_move,    \* history: the most recent move_forward call (NoMove if none)
    prior_move,   \* history: the move_forward call before last_move
    cw_from,      \* history: orientation before the current run of turn(+1) calls
    cw_run,       \* history: length of the current run of consecutive turn(+1) calls
    pc,           \* main(): position in the game loop
    running,      \* main(): the loop flag
    queue,        \* main(): events of pygame.event.get() not yet iterated over
    batch,        \* history: what the last pygame.event.get() returned
    handled,      \* history: events of that batch handled so far, in order
    dispatched,   \* history: Uboat methods called for the event handled last
    quit_seen,    \* history: a QUIT event has been handled
    frames_after_quit,  \* history: frames drawn since running became False
    posted        \* history: events delivered by pygame.event.get() so far

boat_vars == <<game_map, game_state, uboat, exc, neg_index>>
hist_vars == <<last_move, prior_move, cw_from, cw_run>>
loop_vars ==
    <<pc, running, queue, batch, handled, dispatched, quit_seen,
      frames_after_quit, posted>>
vars == <<boat_vars, hist_vars, loop_vars>>

-----------------------------------------------------------------------------
\* Python's list[i]: a negative index counts from the end, an index outside
\* -len..len-1 raises IndexError. The result is [raised, value].
PyGetItem(list, i) ==
    IF 0 <= i /\ i < Len(list)
    THEN [raised |-> "none", value |-> list[i + 1]]
    ELSE IF -Len(list) <= i /\ i < 0
         THEN [raised |-> "none", value |-> list[Len(list) + i + 1]]
         ELSE [raised |-> "IndexError", value |-> <<>>]

\* Mutation: the NE and NW vectors listed in each other's place.
cube_directions_swapped ==
    << <<0, -1, 1>>, <<1, 0, -1>>, <<0, 1, -1>>, <<-1, 1, 0>>, <<-1, 0, 1>>,
       <<1, -1, 0>> >>

\* Uboat.move_forward: the cube direction vectors (q, r, s), src/main.py:111-118
cube_directions ==
    << <<1, -1, 0>>,    \* NE
       <<1, 0, -1>>,    \* E
       <<0, 1, -1>>,    \* SE
       <<-1, 1, 0>>,    \* SW
       <<-1, 0, 1>>,    \* W
       <<0, -1, 1>> >>  \* NW

\* Our orientation: 0:E, 1:SE, 2:SW, 3:W, 4:NW, 5:NE (src/main.py:120)
orientation_to_cube_map == <<1, 2, 3, 4, 5, 0>>

\* Mutation: the conversion of the even-row-shifted layout.
OffsetToCubeEvenRow(row, col) ==
    LET q == col - ((row + (row % 2)) \div 2)
        r == row
        s == (0 - q) - r
    IN  <<q, r, s>>

\* row & 1 on a Python int (two's complement of unbounded width) is row mod 2;
\* // is floor division, as \div is.
OffsetToCube(row, col) ==
    LET q == col - ((row - (row % 2)) \div 2)
        r == row
        s == (0 - q) - r
    IN  <<q, r, s>>

\* cube_directions[orientation_to_cube_map[self.orientation]]
DirectionOf(orientation) ==
    PyGetItem(cube_directions,
              PyGetItem(orientation_to_cube_map, orientation).value).value

CubeAdd(cube, d) == <<cube[1] + d[1], cube[2] + d[2], cube[3] + d[3]>>

CubeToOffset(cube) ==
    LET new_q == cube[1]
        new_r == cube[2]
        new_row == new_r
        new_col == new_q + ((new_r - (new_r % 2)) \div 2)
    IN  <<new_row, new_col>>

\* The hex move_forward computes as its target, <<new_row, new_col>>.
Target(u) ==
    CubeToOffset(CubeAdd(OffsetToCube(u.row, u.col), DirectionOf(u.orientation)))

\* Mutation: the lower bounds are not tested.
InBoundsUpperOnly(map, new_row, new_col) ==
    /\ new_row < Len(map)
    /\ new_col < Len(PyGetItem(map, 0).value)

\* if 0 <= new_row < len(game_map) and 0 <= new_col < len(game_map[0])
InBounds(map, new_row, new_col) ==
    /\ 0 <= new_row /\ new_row < Len(map)
    /\ 0 <= new_col /\ new_col < Len(PyGetItem(map, 0).value)

\* Mutation: every terrain but OUT_OF_BOUNDS is accepted.
IsNotOutOfBounds(terrain) == terrain # OUT_OF_BOUNDS

\* Mutation: SHALLOW_WATER is not accepted.
IsDeepWater(terrain) == terrain = DEEP_WATER

\* if terrain == DEEP_WATER or terrain == SHALLOW_WATER
IsWater(terrain) == terrain = DEEP_WATER \/ terrain = SHALLOW_WATER

\* Uboat.move_forward on boat u over terrain list map: the boat afterwards, the
\* exception raised (if any) and whether the map was subscripted with a
\* negative index.
move_forward(u, map) ==
    LET t == Target(u)
        new_row == t[1]
        new_col == t[2]
    IN  IF InBounds(map, new_row, new_col)
        THEN LET map_row == PyGetItem(map, new_row)
                 terrain == IF map_row.raised # "none" THEN map_row
                            ELSE PyGetItem(map_row.value, new_col)
             IN  [ uboat |-> IF terrain.raised = "none" /\ IsWater(terrain.value)
                             THEN [u EXCEPT !.row = new_row, !.col = new_col]
                             ELSE u,
                   exc |-> terrain.raised,
                   neg |-> new_row < 0 \/ new_col < 0 ]
        ELSE [uboat |-> u, exc |-> "none", neg |-> FALSE]

\* Mutation: the direction argument is ignored, every turn is clockwise.
turnAlwaysCW(u, direction) ==
    [u EXCEPT !.orientation = (u.orientation + 1 + 6) % 6]

\* Mutation: the modulus is 5.
turnMod5(u, direction) ==
    [u EXCEPT !.orientation = (u.orientation + direction + 6) % 5]

\* Uboat.turn: direction is 1 for CW, -1 for CCW.
turn(u, direction) ==
    [u EXCEPT !.orientation = (u.orientation + direction + 6) % 6]

\* Uboat.__init__: self.row, self.col = initial_pos; self.orientation = ...
NewUboat(initial_pos, initial_orientation) ==
    [row |-> initial_pos[1], col |-> initial_pos[2],
     orientation |-> initial_orientation]

-----------------------------------------------------------------------------
NoMove == [called |-> FALSE]

MoveRecord(u, res) ==
    [called |-> TRUE, before |-> u, target |-> Target(u), after |-> res.uboat,
     exc |-> res.exc]

InitLoop ==
    /\ pc = "while"
    /\ running = TRUE
    /\ queue = <<>>
    /\ batch = <<>>
    /\ handled = <<>>
    /\ dispatched = <<>>
    /\ quit_seen = FALSE
    /\ frames_after_quit = 0
    /\ posted = 0

InitHist ==
    /\ last_move = NoMove
    /\ prior_move = NoMove
    /\ cw_from = 0
    /\ cw_run = 0

\* Module load, then main() up to the creation of the U-Boat (src/main.py:301).
Init ==
    /\ game_map = GameMapLayout
    /\ game_state = GameStateInit
    /\ uboat = NewUboat(GameStateInit.uboat_pos, GameStateInit.uboat_orientation)
    /\ exc = "none"
    /\ neg_index = FALSE
    /\ InitHist
    /\ InitLoop

\* A call uboat.turn(direction).
Turn(direction) ==
    /\ exc = "none"
    /\ uboat' = turn(uboat, direction)
    /\ IF direction = 1
       THEN IF cw_run = 0 \/ cw_run = 6
            THEN cw_from' = uboat.orientation /\ cw_run' = 1
            ELSE cw_from' = cw_from /\ cw_run' = cw_run + 1
       ELSE cw_from' = 0 /\ cw_run' = 0
    /\ UNCHANGED <<game_map, game_state, exc, neg_index, last_move, prior_move>>

\* A call uboat.move_forward().
MoveForward ==
    /\ exc = "none"
    /\ LET res == move_forward(uboat, game_map)
       IN  /\ uboat' = res.uboat
           /\ exc' = res.exc
           /\ neg_index' = (neg_index \/ res.neg)
           /\ last_move' = MoveRecord(uboat, res)
           /\ prior_move' = last_move
    /\ cw_from' = 0 /\ cw_run' = 0
    /\ UNCHANGED <<game_map, game_state>>

TurnCW == Turn(1) /\ UNCHANGED loop_vars

TurnCCW == Turn(-1) /\ UNCHANGED loop_vars

Forward == MoveForward /\ UNCHANGED loop_vars

\* Any finite sequence of turn(+1), turn(-1) and move_forward calls on the
\* U-Boat main() creates.
Next ==
    \/ TurnCW
    \/ TurnCCW
    \/ Forward

Spec == Init /\ [][Next]_vars

\* Uboat(initial_pos, initial_orientation, hex_size) created on any hex of
\* the grid with any facing: the inputs of turn and move_forward.
InitAny ==
    /\ game_map = GameMapLayout
    /\ game_state = GameStateInit
    /\ \E r \in 0..(Len(GameMapLayout) - 1) :
         \E c \in 0..(Len(GameMapLayout[1]) - 1) :
            \E o \in 0..5 : uboat = NewUboat(<<r, c>>, o)
    /\ exc = "none"
    /\ neg_index = FALSE
    /\ InitHist
    /\ InitLoop

SpecAny == InitAny /\ [][Next]_vars

-----------------------------------------------------------------------------
\* The event loop of main() (src/main.py:312-344).

\* Total number of events the window system delivers in one session.
MaxEvents == 5

\* The events pygame.event.get() can return: a window close, a key press of
\* D, A, W or of a key with no binding (S), and an event that is neither
\* (a key release, here of W).
Events ==
    { [type |-> "QUIT", key |-> "none"],
      [type |-> "KEYDOWN", key |-> "K_d"],
      [type |-> "KEYDOWN", key |-> "K_a"],
      [type |-> "KEYDOWN", key |-> "K_w"],
      [type |-> "KEYDOWN", key |-> "K_s"],
      [type |-> "KEYUP", key |-> "K_w"] }

\* Mutation: the D branch falls through into move_forward.
KeyDownFallThrough(u, key, map) ==
    LET u1 == IF key = "K_d" THEN turn(u, 1) ELSE u
        c1 == IF key = "K_d" THEN <<"turn_cw">> ELSE <<>>
        u2 == IF key = "K_a" THEN turn(u1, -1) ELSE u1
        c2 == IF key = "K_a" THEN Append(c1, "turn_ccw") ELSE c1
        mv == IF key = "K_w" \/ key = "K_d" THEN move_forward(u2, map)
              ELSE [uboat |-> u2, exc |-> "none", neg |-> FALSE]
        c3 == IF key = "K_w" \/ key = "K_d" THEN Append(c2, "move_forward")
              ELSE c2
    IN  [uboat |-> mv.uboat, exc |-> mv.exc, neg |-> mv.neg, calls |-> c3]

\* The body of "if event.type == pygame.KEYDOWN:" (src/main.py:318-323): three
\* independent if statements, run in order on boat u.
KeyDown(u, key, map) ==
    LET u1 == IF key = "K_d" THEN turn(u, 1) ELSE u
        c1 == IF key = "K_d" THEN <<"turn_cw">> ELSE <<>>
        u2 == IF key = "K_a" THEN turn(u1, -1) ELSE u1
        c2 == IF key = "K_a" THEN Append(c1, "turn_ccw") ELSE c1
        mv == IF key = "K_w" THEN move_forward(u2, map)
              ELSE [uboat |-> u2, exc |-> "none", neg |-> FALSE]
        c3 == IF key = "K_w" THEN Append(c2, "move_forward") ELSE c2
    IN  [uboat |-> mv.uboat, exc |-> mv.exc, neg |-> mv.neg, calls |-> c3]

\* The body of "for event in pygame.event.get():" for one event e
\* (src/main.py:315-323): the new loop flag and the effect on the boat.
OnEvent(e, u, flag, map) ==
    LET flag1 == IF e.type = "QUIT" THEN FALSE ELSE flag
        kd == IF e.type = "KEYDOWN" THEN KeyDown(u, e.key, map)
              ELSE [uboat |-> u, exc |-> "none", neg |-> FALSE, calls |-> <<>>]
    IN  [running |-> flag1, uboat |-> kd.uboat, exc |-> kd.exc, neg |-> kd.neg,
         calls |-> kd.calls]

\* Mutation: "while True:", the flag is not read.
WhileEnterAlways ==
    /\ pc = "while"
    /\ pc' = "get"
    /\ UNCHANGED <<boat_vars, hist_vars, running, queue, batch, handled,
                   dispatched, quit_seen, frames_after_quit, posted>>

\* "while running:" evaluated true: the loop body is entered.
WhileEnter ==
    /\ pc = "while"
    /\ running
    /\ pc' = "get"
    /\ UNCHANGED <<boat_vars, hist_vars, running, queue, batch, handled,
                   dispatched, quit_seen, frames_after_quit, posted>>

\* "while running:" evaluated false: pygame.quit() and main() returns.
WhileExit ==
    /\ pc = "while"
    /\ ~running
    /\ pc' = "exit"
    /\ UNCHANGED <<boat_vars, hist_vars, running, queue, batch, handled,
                   dispatched, quit_seen, frames_after_quit, posted>>

\* pygame.event.get(): every event pending at this moment, in arrival order.
EventGet ==
    /\ pc = "get"
    /\ \E n \in 0..(MaxEvents - posted) :
         \E b \in [1..n -> Events] :
            /\ queue' = b
            /\ batch' = b
            /\ posted' = posted + n
    /\ handled' = <<>>
    /\ pc' = "for"
    /\ UNCHANGED <<boat_vars, hist_vars, running, dispatched, quit_seen,
                   frames_after_quit>>

\* Mutation: the handler writes the boat's position and facing back into
\* game_state.
HandleEventSyncsState ==
    /\ pc = "for"
    /\ queue # <<>>
    /\ LET e == Head(queue)
           r == OnEvent(e, uboat, running, game_map)
       IN  /\ running' = r.running
           /\ uboat' = r.uboat
           /\ exc' = r.exc
           /\ neg_index' = (neg_index \/ r.neg)
           /\ dispatched' = r.calls
           /\ quit_seen' = (quit_seen \/ e.type = "QUIT")
           /\ handled' = Append(handled, e)
           /\ pc' = IF r.exc = "none" THEN "for" ELSE "crashed"
           /\ game_state' = [game_state EXCEPT
                                !.uboat_pos = <<r.uboat.row, r.uboat.col>>,
                                !.uboat_orientation = r.uboat.orientation]
    /\ queue' = Tail(queue)
    /\ UNCHANGED <<game_map, hist_vars, batch, frames_after_quit, posted>>

\* One iteration of the for loop, on the next event of the batch.
HandleEvent ==
    /\ pc = "for"
    /\ queue # <<>>
    /\ LET e == Head(queue)
           r == OnEvent(e, uboat, running, game_map)
       IN  /\ running' = r.running
           /\ uboat' = r.uboat
           /\ exc' = r.exc
           /\ neg_index' = (neg_index \/ r.neg)
           /\ dispatched' = r.calls
           /\ quit_seen' = (quit_seen \/ e.type = "QUIT")
           /\ handled' = Append(handled, e)
           /\ pc' = IF r.exc = "none" THEN "for" ELSE "crashed"
    /\ queue' = Tail(queue)
    /\ UNCHANGED <<game_map, game_state, hist_vars, batch, frames_after_quit,
                   posted>>

\* The for loop is exhausted: the drawing section up to pygame.display.flip()
\* (src/main.py:325-342). It reads the boat and game_state and writes only
\* the screen.
Draw ==
    /\ pc = "for"
    /\ queue = <<>>
    /\ frames_after_quit' = IF running THEN 0 ELSE frames_after_quit + 1
    /\ pc' = "while"
    /\ UNCHANGED <<boat_vars, hist_vars, running, queue, batch, handled,
                   dispatched, quit_seen, posted>>

LoopNext ==
    \/ WhileEnter
    \/ WhileExit
    \/ EventGet
    \/ HandleEvent
    \/ Draw

LoopSpec == Init /\ [][LoopNext]_vars

-----------------------------------------------------------------------------
\* Vocabulary of the properties below.

Pos(u) == <<u.row, u.col>>

Reverse(o) == (o + 3) % 6

OffGrid(p) == p[1] < 0 \/ p[1] >= 13 \/ p[2] < 0 \/ p[2] >= 15

TerrainAt(p) == GameMapLayout[p[1] + 1][p[2] + 1]

WaterTile(p) ==
    /\ ~OffGrid(p)
    /\ TerrainAt(p) \in {DEEP_WATER, SHALLOW_WATER}

\* A water tile not on the first or last row or column of the grid.
InteriorWater(p) ==
    /\ WaterTile(p)
    /\ p[1] >= 1 /\ p[1] <= 11
    /\ p[2] >= 1 /\ p[2] <= 13

\* The neighbour of hex (row, col) in direction o on the odd-row-shifted layout.
NeighbourTable(row, col, o) ==
    IF o = 0 THEN <<row, col + 1>>
    ELSE IF o = 3 THEN <<row, col - 1>>
    ELSE IF row % 2 = 0
         THEN CASE o = 1 -> <<row + 1, col>>
                [] o = 2 -> <<row + 1, col - 1>>
                [] o = 4 -> <<row - 1, col - 1>>
                [] o = 5 -> <<row - 1, col>>
         ELSE CASE o = 1 -> <<row + 1, col + 1>>
                [] o = 2 -> <<row + 1, col>>
                [] o = 4 -> <<row - 1, col>>
                [] o = 5 -> <<row - 1, col + 1>>

Committed(m) == m.called /\ Pos(m.after) # Pos(m.before)

\* Two move_forward calls in succession (only turns in between), the second
\* one facing the reverse of the first.
ThereAndBack ==
    /\ prior_move.called
    /\ last_move.called
    /\ last_move.before.orientation = Reverse(prior_move.before.orientation)

\* The Uboat methods the bindings of main() give an event.
Bound(e) ==
    IF e.type = "KEYDOWN" /\ e.key = "K_d" THEN <<"turn_cw">>
    ELSE IF e.type = "KEYDOWN" /\ e.key = "K_a" THEN <<"turn_ccw">>
    ELSE IF e.type = "KEYDOWN" /\ e.key = "K_w" THEN <<"move_forward">>
    ELSE <<>>

KD == [type |-> "KEYDOWN", key |-> "K_d"]
KA == [type |-> "KEYDOWN", key |-> "K_a"]
KW == [type |-> "KEYDOWN", key |-> "K_w"]
QuitEvent == [type |-> "QUIT", key |-> "none"]

-----------------------------------------------------------------------------
\* C1: from the initial state (row 7, col 7, orientation 0), after any finite
\* sequence of turn(+1), turn(-1) and move_forward the U-Boat is inside the
\* 13 x 15 grid on a DEEP_WATER or SHALLOW_WATER tile of game_map.
C1_StaysOnWater ==
    /\ 0 <= uboat.row /\ uboat.row < 13
    /\ 0 <= uboat.col /\ uboat.col < 15
    /\ game_map[uboat.row + 1][uboat.col + 1] \in {DEEP_WATER, SHALLOW_WATER}

\* The boat has sailed to row 6, col 7 and was then refused the LAND tile
\* to its west.
C1_Witness ==
    /\ Committed(prior_move)
    /\ last_move.called
    /\ last_move.before = [row |-> 6, col |-> 7, orientation |-> 3]
    /\ last_move.target = <<6, 6>>
    /\ Pos(uboat) = <<6, 7>>

\* C2: when the target hex move_forward computes is outside the grid or is
\* LAND or OUT_OF_BOUNDS terrain, the call leaves row, col and orientation
\* unchanged and raises nothing, and game_map is never subscripted with a
\* negative (or out-of-range) index.
C2_BlockedMoveIsIgnored ==
    /\ exc = "none"
    /\ ~neg_index
    /\ last_move.called =>
         ( (OffGrid(last_move.target)
              \/ TerrainAt(last_move.target) \in {LAND, OUT_OF_BOUNDS})
           => /\ last_move.after = last_move.before
              /\ last_move.exc = "none" )

\* A move off the west edge (target column -1) was attempted and ignored,
\* after one into an OUT_OF_BOUNDS corner tile.
C2_Witness ==
    /\ prior_move.called
    /\ ~OffGrid(prior_move.target)
    /\ TerrainAt(prior_move.target) = OUT_OF_BOUNDS
    /\ last_move.called
    /\ last_move.target[2] = -1
    /\ last_move.after = last_move.before

\* C3: for every hex of the grid and every orientation, the target hex of
\* move_forward (offset -> cube -> add direction -> offset) is the
\* odd-row-shifted neighbour; from row 7, col 7 facing 0 the boat moves to
\* row 7, col 8.
C3_TargetIsNeighbour ==
    last_move.called =>
        /\ last_move.target =
             NeighbourTable(last_move.before.row, last_move.before.col,
                            last_move.before.orientation)
        /\ last_move.before = [row |-> 7, col |-> 7, orientation |-> 0]
             => last_move.after = [row |-> 7, col |-> 8, orientation |-> 0]

\* The example of the claim has been run.
C3_Witness ==
    /\ last_move.called
    /\ last_move.before = [row |-> 7, col |-> 7, orientation |-> 0]
    /\ last_move.after = [row |-> 7, col |-> 8, orientation |-> 0]

\* C4 as stated: from every interior water tile and for every orientation o,
\* move_forward, a turn to (o + 3) mod 6 and move_forward again bring the
\* boat back to the tile it started from.
C4_Original ==
    (ThereAndBack /\ InteriorWater(Pos(prior_move.before)))
        => Pos(last_move.after) = Pos(prior_move.before)

\* C4 amended: the same, for the orientations o in which the tile's forward
\* neighbour is a water tile.
C4_RoundTripOverWater ==
    ( /\ ThereAndBack
      /\ InteriorWater(Pos(prior_move.before))
      /\ WaterTile(NeighbourTable(prior_move.before.row, prior_move.before.col,
                                  prior_move.before.orientation)) )
        => Pos(last_move.after) = Pos(prior_move.before)

\* From row 5, col 6 south-east to row 6, col 7 and back north-west.
C4_Witness ==
    /\ ThereAndBack
    /\ prior_move.before = [row |-> 5, col |-> 6, orientation |-> 1]
    /\ prior_move.after = [row |-> 6, col |-> 7, orientation |-> 1]
    /\ last_move.before = [row |-> 6, col |-> 7, orientation |-> 4]
    /\ Pos(last_move.after) = <<5, 6>>

\* C5: turn(delta), delta in {+1, -1}, sets orientation to
\* (orientation + delta + 6) mod 6 and changes nothing else (row, col, map
\* and game state are as before), and the orientation is in 0..5 after any
\* sequence of operations.
C5_TurnOnlyTurns ==
    [][ /\ TurnCW =>
           /\ uboat'.orientation = (uboat.orientation + 1 + 6) % 6
           /\ uboat'.row = uboat.row /\ uboat'.col = uboat.col
           /\ game_map' = game_map /\ game_state' = game_state
        /\ TurnCCW =>
           /\ uboat'.orientation = (uboat.orientation - 1 + 6) % 6
           /\ uboat'.row = uboat.row /\ uboat'.col = uboat.col
           /\ game_map' = game_map /\ game_state' = game_state
        /\ uboat'.orientation \in 0..5 ]_vars

\* Facing 0 the boat was turned counter-clockwise to 5 and then clockwise
\* twice, to 1, away from its starting hex.
C5_Witness ==
    /\ cw_run = 2
    /\ cw_from = 5
    /\ uboat.orientation = 1
    /\ Pos(uboat) # <<7, 7>>

\* C6: from every orientation, six turn(+1) calls in a row give the starting
\* orientation again, and one to five do not.
C6_SixTurnsClose ==
    /\ cw_run = 6 => uboat.orientation = cw_from
    /\ cw_run \in 1..5 => uboat.orientation # cw_from

\* Six clockwise turns in a row were made from orientation 4.
C6_Witness ==
    /\ cw_run = 6
    /\ cw_from = 4
    /\ uboat.orientation = 4

\* C7: in every iteration of the main loop the events of the frame are
\* handled one by one in queue order and all of them before the frame is
\* drawn; a key press triggers at most one operation: D turn(+1), A turn(-1),
\* W move_forward, any other key (or event) none.
C7_EventsThenFrame ==
    /\ handled \o queue = batch
    /\ pc \in {"while", "get", "exit"} => handled = batch
    /\ Len(dispatched) <= 1
    /\ handled # <<>> => dispatched = Bound(handled[Len(handled)])

\* A frame was drawn after a batch of three events, the last a W press.
C7_Witness ==
    /\ pc = "while"
    /\ batch = <<KA, [type |-> "KEYDOWN", key |-> "K_s"], KW>>
    /\ handled = batch
    /\ dispatched = <<"move_forward">>
    /\ uboat = [row |-> 6, col |-> 8, orientation |-> 5]

\* C8: no key event and no operation of the U-Boat (turn, move_forward
\* committed or blocked) modifies the terrain map or any entry of game_state;
\* only the Uboat object's row, col and orientation change.
C8_MapAndStateFrozen ==
    /\ game_map = GameMapLayout
    /\ game_state = GameStateInit
    /\ game_state.uboat_pos = <<7, 7>>
    /\ game_state.uboat_orientation = 0

\* Turns, a committed move and then a move blocked by LAND have been handled
\* and drawn, the boat being away from its initial hex and facing.
C8_Witness ==
    /\ pc = "while"
    /\ handled = <<KA, KA, KW, KA, KW>>
    /\ uboat = [row |-> 6, col |-> 7, orientation |-> 3]

\* C9: when a move_forward from a reachable state with orientation o is
\* committed, a turn to (o + 3) mod 6 and another move_forward is committed
\* too and puts the boat back on the hex it left.
C9_CommittedMoveUndoable ==
    (ThereAndBack /\ Committed(prior_move))
        => /\ Committed(last_move)
           /\ Pos(last_move.after) = Pos(prior_move.before)

\* The boat left the shallow hex row 7, col 7 north-east into deep water and
\* came back south-west.
C9_Witness ==
    /\ ThereAndBack
    /\ prior_move.before = [row |-> 7, col |-> 7, orientation |-> 5]
    /\ Pos(prior_move.after) = <<6, 8>>
    /\ Committed(last_move)
    /\ Pos(uboat) = <<7, 7>>

\* Steps left before main() returns, once the loop flag is down.
StepsToExit ==
    CASE pc = "for" -> Len(queue) + 2
      [] pc = "while" -> 1
      [] pc = "exit" -> 0
      [] OTHER -> 99

\* What holds of the state a step leads to, once QUIT may have been read.
AfterQuit ==
    /\ running = ~quit_seen
    /\ pc = "exit" => quit_seen
    /\ ~running =>
         /\ pc \in {"for", "while", "exit"}
         /\ \E i \in 1..Len(batch) : batch[i] = QuitEvent
         /\ handled # <<>> => dispatched = Bound(handled[Len(handled)])
         /\ pc # "for" => (handled = batch /\ frames_after_quit = 1)

\* C10: once a QUIT event is read the loop ends with the current iteration:
\* the rest of the batch is still handled (key presses after the QUIT act on
\* the boat), one last frame is drawn, no further batch is fetched and every
\* step brings the return of main() nearer; main() returns only after a QUIT.
C10_QuitEndsLoop ==
    [][ /\ AfterQuit'
        /\ ~running => StepsToExit' < StepsToExit ]_vars

\* main() has returned after a batch in which a D press followed the QUIT
\* and turned the boat.
C10_Witness ==
    /\ pc = "exit"
    /\ batch = <<KW, QuitEvent, KD>>
    /\ handled = batch
    /\ uboat = [row |-> 7, col |-> 8, orientation |-> 1]
    /\ frames_after_quit = 1

=============================================================================
